---- MODULE Spec2Model ----
(***************************************************************************)
(* Model of the two programs of kaovilai/go-playground:                    *)
(*   - the mock controller that checks whether a CustomResourceDefinition  *)
(*     declares the property names the controller expects                  *)
(*     (compareSchemaProperties, checkCRD, main);                          *)
(*   - the hello-world program that writes to stdout and to timestamped    *)
(*     files under results/ (main.go).                                     *)
(***************************************************************************)
EXTENDS Integers, Sequences, FiniteSets, TLC

(***************************************************************************)
(* Bounds of the model.                                                    *)
(***************************************************************************)
\* longest list of versions in a generated document
MaxVersions == 2
\* number of property names the generated inputs of compareSchemaProperties use
MaxKeys == 2
\* number of distinct timestamps (and so of file names) of the file program
MaxStamp == 2

(***************************************************************************)
(* Go maps.  A map value is nil or a table; indexing and ranging over a    *)
(* nil map behave as for an empty table.                                   *)
(***************************************************************************)
EmptyFn == [k \in {} |-> 0]

NilMap == [isNil |-> TRUE, kv |-> EmptyFn]

MakeMap(f) == [isNil |-> FALSE, kv |-> f]

\* the keys `for key := range m` visits
MapKeys(m) == IF m.isNil THEN {} ELSE DOMAIN m.kv

\* the ok of `_, ok := m[key]`
MapHas(m, key) == (~m.isNil) /\ key \in DOMAIN m.kv

\* apiextensionsv1.JSONSchemaProps, reduced to the fields the documents set
Props(t, f) == [Type |-> t, Format |-> f]

(***************************************************************************)
(* The expected schema properties of checkCRD.                             *)
(***************************************************************************)
expectedSpecProperties ==
    MakeMap([foo |-> Props("string", ""), bar |-> Props("integer", "int64")])

expectedStatusProperties ==
    MakeMap([message |-> Props("string", ""), ready |-> Props("boolean", "")])

\* the expected table checkCRD passes for a section
ExpectedFor(sec) ==
    IF sec = "spec" THEN expectedSpecProperties ELSE expectedStatusProperties

\* the two blocks of checkCRD exchanged
SwappedOrder == <<"status", "spec">>

\* the order in which checkCRD evaluates the sections
CodeOrder == <<"spec", "status">>

\* the version name checkCRD looks for
TargetVersion == "v1"

(***************************************************************************)
(* Documents.                                                              *)
(***************************************************************************)
\* a JSONSchemaProps that has a Properties map
Section(m) == [Properties |-> m]

\* version.Schema: nil, a validation without OpenAPIV3Schema, or a schema
\* whose top-level Properties maps section names to sections
NilSchema == [isNil |-> TRUE, hasOpenAPI |-> FALSE, Properties |-> EmptyFn]

NoOpenAPISchema == [isNil |-> FALSE, hasOpenAPI |-> FALSE, Properties |-> EmptyFn]

MakeSchema(p) == [isNil |-> FALSE, hasOpenAPI |-> TRUE, Properties |-> p]

MakeVersion(n, s) == [Name |-> n, Schema |-> s]

MakeDocument(vs) == [parse |-> "ok", Versions |-> vs]

\* mockOutOfDateCRDFromCluster
mockOutOfDateCRDFromCluster ==
    MakeDocument(<<MakeVersion("v1", MakeSchema(
        [spec |-> Section(MakeMap([foo |-> Props("string", "")])),
         status |-> Section(MakeMap([message |-> Props("string", "")]))]))>>)

\* mockUpToDateCRDFromCluster
mockUpToDateCRDFromCluster ==
    MakeDocument(<<MakeVersion("v1", MakeSchema(
        [spec |-> Section(expectedSpecProperties),
         status |-> Section(expectedStatusProperties)]))>>)

\* Properties maps of a generated section: nil (no `properties:` key) or
\* some of the expected names
SectionMaps(sec) ==
    {NilMap} \cup
    {MakeMap([k \in K |-> ExpectedFor(sec).kv[k]]) :
        K \in (SUBSET MapKeys(ExpectedFor(sec))) \ {{}}}

SectionNames == {"spec", "status"}

\* top-level Properties of a generated schema: each section present or not
TopLevelProperties ==
    UNION {[S -> UNION {{Section(m) : m \in SectionMaps(sec)} : sec \in S}] :
            S \in SUBSET SectionNames}

WellFormedTop(p) ==
    \A sec \in DOMAIN p : p[sec].Properties \in SectionMaps(sec)

Schemas ==
    {NilSchema, NoOpenAPISchema} \cup
    {MakeSchema(p) : p \in {q \in TopLevelProperties : WellFormedTop(q)}}

\* the schema of the up-to-date mock
FullSchema == mockUpToDateCRDFromCluster.Versions[1].Schema

\* generated versions: the target version with any schema, and another
\* version without a schema or with the up-to-date one
GenVersions ==
    {MakeVersion(TargetVersion, s) : s \in Schemas} \cup
    {MakeVersion("v2", s) : s \in {NilSchema, FullSchema}}

RECURSIVE SeqsUpTo(_, _)
SeqsUpTo(S, n) ==
    IF n = 0 THEN {<<>>}
    ELSE LET shorter == SeqsUpTo(S, n - 1)
         IN  shorter \cup {Append(s, x) : s \in {t \in shorter : Len(t) = n - 1}, x \in S}

\* documents that yaml.Unmarshal or FromUnstructured rejects
BadDocuments ==
    {[parse |-> e, Versions |-> <<>>] : e \in {"unmarshal-error", "convert-error"}}

Documents ==
    {MakeDocument(vs) : vs \in SeqsUpTo(GenVersions, MaxVersions)}
    \cup {mockOutOfDateCRDFromCluster, mockUpToDateCRDFromCluster}
    \cup BadDocuments

(***************************************************************************)
(* Output.  One sequence holds what the mock controller writes, in program *)
(* order: the OK/FAIL lines of compareSchemaProperties (fmt.Printf) and    *)
(* the lines of the log package.                                           *)
(***************************************************************************)
Diag(result, key) == [stream |-> "stdout", text |-> result, key |-> key]

Log(msg, arg) == [stream |-> "log", text |-> msg, key |-> arg]

\* the texts of the log lines that end a run of checkCRD with an outcome
VerdictTexts ==
    {"v1-not-found", "missing-section", "up-to-date", "out-of-date"}

VARIABLES
    pc,                 \* where the mock controller is
    doc,                \* the document handed to checkCRD
    todo,               \* main: the calls of checkCRD still to make (their section orders)
    sections,           \* checkCRD: the sections still to evaluate
    actualCRDSchema,    \* checkCRD: top-level Properties of the v1 schema
    upToDate,           \* checkCRD: specUpToDate / statusUpToDate, once assigned
    actual,             \* compareSchemaProperties: parameter
    expected,           \* compareSchemaProperties: parameter
    remaining,          \* compareSchemaProperties: keys of expected not yet ranged over
    allPropertiesFound, \* compareSchemaProperties: local
    ret,                \* compareSchemaProperties: <<returned value>>, or <<>>
    output,             \* what the mock controller has written
    exitCode,           \* -1 while the process runs, then its exit status
    fpc,                \* where the file program is
    timestamp,          \* file program: the formatted time
    fsDir,              \* file system: results/ exists
    fsFiles,            \* file system: contents of the files under results/
    created,            \* files the file program has created, in order
    stdout,             \* file program: lines on stdout
    stderr              \* file program: messages on stderr

crdVars == <<pc, doc, todo, sections, actualCRDSchema, upToDate, actual, expected,
             remaining, allPropertiesFound, ret, output>>

fileVars == <<fpc, timestamp, fsDir, fsFiles, created, stdout, stderr>>

vars == <<crdVars, fileVars, exitCode>>

(***************************************************************************)
(* compareSchemaProperties                                                 *)
(***************************************************************************)
\* variant: a key counts as found only with the expected descriptor
KeyMissingTyped(act, exp, key) == ~MapHas(act, key) \/ act.kv[key] # exp.kv[key]

\* the condition `_, ok := actual[key]; !ok` in the scope of the loop body
KeyMissing(act, exp, key) == ~MapHas(act, key)

\* variant: the loop ends at the first missing key
NextKeysBreak(rem, found) == IF found THEN rem ELSE {}

\* the keys the range loop may visit next
NextKeys(rem, found) == rem

\* variant: allPropertiesFound keeps the value of the previous call
EnterCompareNoReset(act, exp) ==
    /\ actual' = act
    /\ expected' = exp
    /\ remaining' = MapKeys(exp)
    /\ UNCHANGED allPropertiesFound
    /\ ret' = <<>>

\* the call: parameters bound, allPropertiesFound := true
EnterCompare(act, exp) ==
    /\ actual' = act
    /\ expected' = exp
    /\ remaining' = MapKeys(exp)
    /\ allPropertiesFound' = TRUE
    /\ ret' = <<>>

\* one iteration of `for key := range expected`, in any order
CompareStep ==
    /\ pc = "compare"
    /\ \E key \in NextKeys(remaining, allPropertiesFound) :
        /\ remaining' = remaining \ {key}
        /\ IF KeyMissing(actual, expected, key)
           THEN /\ output' = Append(output, Diag("FAIL", key))
                /\ allPropertiesFound' = FALSE
           ELSE /\ output' = Append(output, Diag("OK", key))
                /\ UNCHANGED allPropertiesFound
    /\ UNCHANGED <<pc, doc, todo, sections, actualCRDSchema, upToDate, actual,
                   expected, ret, exitCode, fileVars>>

\* `return allPropertiesFound`; in checkCRD the value is assigned to
\* specUpToDate or statusUpToDate and the next block follows
CompareReturn ==
    /\ pc = "compare"
    /\ NextKeys(remaining, allPropertiesFound) = {}
    /\ ret' = <<allPropertiesFound>>
    /\ remaining' = {}
    /\ IF sections = <<>>
       THEN /\ pc' = "returned"
            /\ UNCHANGED <<sections, upToDate>>
       ELSE /\ upToDate' = (Head(sections) :> allPropertiesFound) @@ upToDate
            /\ sections' = Tail(sections)
            /\ pc' = IF Tail(sections) = <<>> THEN "conclude" ELSE "section"
    /\ UNCHANGED <<doc, todo, actualCRDSchema, actual, expected, allPropertiesFound,
                   output, exitCode, fileVars>>

(***************************************************************************)
(* checkCRD                                                                *)
(***************************************************************************)
\* the locals of checkCRD and of compareSchemaProperties before they are set
NoLocals ==
    /\ sections = <<>>
    /\ actualCRDSchema = EmptyFn
    /\ upToDate = EmptyFn
    /\ actual = NilMap
    /\ expected = NilMap
    /\ remaining = {}
    /\ allPropertiesFound = TRUE
    /\ ret = <<>>

\* the loop over crd.Spec.Versions: the Schema of the first version named
\* "v1", nil when there is none
RECURSIVE FindV1Schema(_)
FindV1Schema(versions) ==
    IF versions = <<>> THEN NilSchema
    ELSE IF Head(versions).Name = TargetVersion THEN Head(versions).Schema
    ELSE FindV1Schema(Tail(versions))

\* variant: only the schema object is tested
SchemaNotFoundNilOnly(v1schema) == v1schema.isNil

\* `v1schema == nil || v1schema.OpenAPIV3Schema == nil`
SchemaNotFound(v1schema) == v1schema.isNil \/ ~v1schema.hasOpenAPI

\* the ok of `actualCRDSchema.Properties[sec]`
SectionPresent(properties, sec) == sec \in DOMAIN properties

\* variant: the message of the spec block, whatever the section
MissingSectionLinesSpec(sec) == <<Log("missing-section", "spec")>>

\* variant: no message
MissingSectionLinesNone(sec) == <<>>

\* what checkCRD logs when a section is absent
MissingSectionLines(sec) == <<Log("missing-section", sec)>>

\* variant: one section up to date is enough
EitherUpToDate(specUpToDate, statusUpToDate) == specUpToDate \/ statusUpToDate

\* `specUpToDate && statusUpToDate`
BothUpToDate(specUpToDate, statusUpToDate) == specUpToDate /\ statusUpToDate

\* the lines of the conclusion
ConclusionLines(specUpToDate, statusUpToDate) ==
    IF BothUpToDate(specUpToDate, statusUpToDate)
    THEN <<Log("up-to-date", "")>>
    ELSE <<Log("out-of-date", "")>>
         \o (IF ~specUpToDate THEN <<Log("detail", "spec")>> ELSE <<>>)
         \o (IF ~statusUpToDate THEN <<Log("detail", "status")>> ELSE <<>>)

\* steps 1 and 2: the header, yaml.Unmarshal, FromUnstructured; either
\* failure is a log.Fatalf, which ends the process with status 1
Parse ==
    /\ pc = "checkCRD"
    /\ IF doc.parse = "ok"
       THEN /\ output' = output \o <<Log("running-check", ""), Log("converted", "")>>
            /\ pc' = "find"
            /\ UNCHANGED exitCode
       ELSE /\ output' = output \o <<Log("running-check", ""), Log("fatal", doc.parse)>>
            /\ pc' = "exited"
            /\ exitCode' = 1
    /\ UNCHANGED <<doc, todo, sections, actualCRDSchema, upToDate, actual, expected,
                   remaining, allPropertiesFound, ret, fileVars>>

\* step 4: find the v1 schema, return if there is none
FindSchema ==
    /\ pc = "find"
    /\ LET v1schema == FindV1Schema(doc.Versions)
       IN  IF SchemaNotFound(v1schema)
           THEN /\ output' = Append(output, Log("v1-not-found", ""))
                /\ pc' = "return"
                /\ UNCHANGED actualCRDSchema
           ELSE /\ actualCRDSchema' = v1schema.Properties
                /\ pc' = "section"
                /\ UNCHANGED output
    /\ UNCHANGED <<doc, todo, sections, upToDate, actual, expected, remaining,
                   allPropertiesFound, ret, exitCode, fileVars>>

\* step 5, one block per section: the header, the lookup of the section,
\* return if it is absent, else the call of compareSchemaProperties
LookupSection ==
    /\ pc = "section"
    /\ LET sec == Head(sections)
       IN  IF ~SectionPresent(actualCRDSchema, sec)
           THEN /\ output' = Append(output, Log("checking", sec)) \o MissingSectionLines(sec)
                /\ pc' = "return"
                /\ UNCHANGED <<actual, expected, remaining, allPropertiesFound, ret>>
           ELSE /\ output' = Append(output, Log("checking", sec))
                /\ EnterCompare(actualCRDSchema[sec].Properties, ExpectedFor(sec))
                /\ pc' = "compare"
    /\ UNCHANGED <<doc, todo, sections, actualCRDSchema, upToDate, exitCode, fileVars>>

\* "--- Check complete ---", the conclusion, the blank line
Conclude ==
    /\ pc = "conclude"
    /\ output' = Append(output, Diag("check-complete", ""))
                 \o ConclusionLines(upToDate["spec"], upToDate["status"])
                 \o <<Diag("blank", "")>>
    /\ pc' = "return"
    /\ UNCHANGED <<doc, todo, sections, actualCRDSchema, upToDate, actual, expected,
                   remaining, allPropertiesFound, ret, exitCode, fileVars>>

\* checkCRD returns to main; its locals are gone
Return ==
    /\ pc = "return"
    /\ pc' = "main"
    /\ sections' = <<>>
    /\ actualCRDSchema' = EmptyFn
    /\ upToDate' = EmptyFn
    /\ actual' = NilMap
    /\ expected' = NilMap
    /\ remaining' = {}
    /\ allPropertiesFound' = TRUE
    /\ ret' = <<>>
    /\ UNCHANGED <<doc, todo, output, exitCode, fileVars>>

(***************************************************************************)
(* main of the mock controller.  It calls checkCRD once per entry of todo; *)
(* an entry is the order in which that call evaluates the sections.        *)
(***************************************************************************)
MainStart ==
    /\ pc = "start"
    /\ output' = Append(output, Log("starting", ""))
    /\ pc' = "main"
    /\ UNCHANGED <<doc, todo, sections, actualCRDSchema, upToDate, actual, expected,
                   remaining, allPropertiesFound, ret, exitCode, fileVars>>

MainCall ==
    /\ pc = "main"
    /\ todo # <<>>
    /\ sections' = Head(todo)
    /\ todo' = Tail(todo)
    /\ pc' = "checkCRD"
    /\ UNCHANGED <<doc, actualCRDSchema, upToDate, actual, expected, remaining,
                   allPropertiesFound, ret, output, exitCode, fileVars>>

MainExit ==
    /\ pc = "main"
    /\ todo = <<>>
    /\ pc' = "exited"
    /\ exitCode' = 0
    /\ UNCHANGED <<doc, todo, sections, actualCRDSchema, upToDate, actual, expected,
                   remaining, allPropertiesFound, ret, output, fileVars>>

\* the file program, not started
FileIdle ==
    /\ fpc = "idle"
    /\ timestamp = 0
    /\ fsDir = FALSE
    /\ fsFiles = EmptyFn
    /\ created = <<>>
    /\ stdout = <<>>
    /\ stderr = <<>>

InitWith(orders) ==
    /\ pc = "start"
    /\ doc \in Documents
    /\ todo = orders
    /\ NoLocals
    /\ output = <<>>
    /\ exitCode = -1
    /\ FileIdle

\* one call of checkCRD on a document
Init == InitWith(<<CodeOrder>>)

Next ==
    \/ MainStart
    \/ MainCall
    \/ Parse
    \/ FindSchema
    \/ LookupSection
    \/ CompareStep
    \/ CompareReturn
    \/ Conclude
    \/ Return
    \/ MainExit

Spec == Init /\ [][Next]_vars

\* two calls of checkCRD on the same document, as main makes them in turn
InitTwice == InitWith(<<CodeOrder, CodeOrder>>)

SpecTwice == InitTwice /\ [][Next]_vars

\* two calls on the same document, the second with the two section blocks
\* exchanged
InitOrder == InitWith(<<CodeOrder, SwappedOrder>>)

SpecOrder == InitOrder /\ [][Next]_vars

(***************************************************************************)
(* compareSchemaProperties on its own, over generated pairs of maps.       *)
(***************************************************************************)
CompareKeyList == <<"foo", "bar", "message", "ready">>

CompareKeys == {CompareKeyList[i] : i \in 1..MaxKeys}

CompareProps == {Props("string", ""), Props("integer", "int64")}

\* nil, and every table from some of the keys to the descriptors
InputMaps ==
    {NilMap} \cup
    {MakeMap(f) : f \in UNION {[K -> CompareProps] : K \in SUBSET CompareKeys}}

\* the mock controller, with no document to check
CrdIdle ==
    /\ doc = MakeDocument(<<>>)
    /\ todo = <<>>
    /\ sections = <<>>
    /\ actualCRDSchema = EmptyFn
    /\ upToDate = EmptyFn
    /\ output = <<>>

InitCompare ==
    /\ pc = "compare"
    /\ CrdIdle
    /\ actual \in InputMaps
    /\ expected \in InputMaps
    /\ remaining = MapKeys(expected)
    /\ allPropertiesFound = TRUE
    /\ ret = <<>>
    /\ exitCode = -1
    /\ FileIdle

NextCompare == CompareStep \/ CompareReturn

SpecCompare == InitCompare /\ [][NextCompare]_vars

(***************************************************************************)
(* The file program (main.go).                                             *)
(***************************************************************************)
output1 == "Hello from Go Playground!"

output2 == "This is a simple Go program that runs to completion."

\* results/output-<timestamp>.txt
outputFile(ts) == [kind |-> "output", stamp |-> ts]

\* results/error-<timestamp>.txt
errorFile(ts) == [kind |-> "error", stamp |-> ts]

Stamps == 1..MaxStamp

AllFiles == {outputFile(ts) : ts \in Stamps} \cup {errorFile(ts) : ts \in Stamps}

\* variant: an existing file is opened as it is
CreateFileKeep(files, name) == IF name \in DOMAIN files THEN files ELSE (name :> <<>>) @@ files

\* os.Create: the file exists afterwards and is empty
CreateFile(files, name) == (name :> <<>>) @@ files

\* fmt.Fprintln to an open file
AppendLine(files, name, line) == [files EXCEPT ![name] = Append(@, line)]

\* a failure: the message on stderr, os.Exit(1)
Fail(msg) ==
    /\ stderr' = Append(stderr, msg)
    /\ exitCode' = 1
    /\ fpc' = "exited"

\* os.MkdirAll("results"): nothing to do when the directory exists
MkdirAll ==
    /\ fpc = "start"
    /\ \/ /\ fsDir' = TRUE
          /\ fpc' = "create-output"
          /\ UNCHANGED <<stderr, exitCode>>
       \/ /\ ~fsDir
          /\ Fail("Error creating results directory")
          /\ UNCHANGED fsDir
    /\ UNCHANGED <<timestamp, fsFiles, created, stdout, crdVars>>

\* os.Create(outputFile)
CreateOutput ==
    /\ fpc = "create-output"
    /\ \/ /\ fsFiles' = CreateFile(fsFiles, outputFile(timestamp))
          /\ created' = Append(created, outputFile(timestamp))
          /\ fpc' = "create-error"
          /\ UNCHANGED <<stderr, exitCode>>
       \/ /\ Fail("Error creating output file")
          /\ UNCHANGED <<fsFiles, created>>
    /\ UNCHANGED <<timestamp, fsDir, stdout, crdVars>>

\* os.Create(errorFile)
CreateError ==
    /\ fpc = "create-error"
    /\ \/ /\ fsFiles' = CreateFile(fsFiles, errorFile(timestamp))
          /\ created' = Append(created, errorFile(timestamp))
          /\ fpc' = "println1"
          /\ UNCHANGED <<stderr, exitCode>>
       \/ /\ Fail("Error creating error file")
          /\ UNCHANGED <<fsFiles, created>>
    /\ UNCHANGED <<timestamp, fsDir, stdout, crdVars>>

\* fmt.Println(output1)
Println1 ==
    /\ fpc = "println1"
    /\ stdout' = Append(stdout, output1)
    /\ fpc' = "println2"
    /\ UNCHANGED <<timestamp, fsDir, fsFiles, created, stderr, exitCode, crdVars>>

\* fmt.Println(output2)
Println2 ==
    /\ fpc = "println2"
    /\ stdout' = Append(stdout, output2)
    /\ fpc' = "fprintln1"
    /\ UNCHANGED <<timestamp, fsDir, fsFiles, created, stderr, exitCode, crdVars>>

\* fmt.Fprintln(outF, output1)
Fprintln1 ==
    /\ fpc = "fprintln1"
    /\ fsFiles' = AppendLine(fsFiles, outputFile(timestamp), output1)
    /\ fpc' = "fprintln2"
    /\ UNCHANGED <<timestamp, fsDir, created, stdout, stderr, exitCode, crdVars>>

\* fmt.Fprintln(outF, output2)
Fprintln2 ==
    /\ fpc = "fprintln2"
    /\ fsFiles' = AppendLine(fsFiles, outputFile(timestamp), output2)
    /\ fpc' = "exit"
    /\ UNCHANGED <<timestamp, fsDir, created, stdout, stderr, exitCode, crdVars>>

\* os.Exit(0)
Exit0 ==
    /\ fpc = "exit"
    /\ exitCode' = 0
    /\ fpc' = "exited"
    /\ UNCHANGED <<timestamp, fsDir, fsFiles, created, stdout, stderr, crdVars>>

\* the file system the program starts in: results/ may exist and may hold
\* files of earlier runs; the timestamp is the time of this run
InitFile ==
    /\ pc = "idle"
    /\ CrdIdle
    /\ actual = NilMap
    /\ expected = NilMap
    /\ remaining = {}
    /\ allPropertiesFound = TRUE
    /\ ret = <<>>
    /\ exitCode = -1
    /\ fpc = "start"
    /\ timestamp \in Stamps
    /\ fsDir \in BOOLEAN
    /\ fsFiles \in UNION {[F -> {<<"old">>}] : F \in SUBSET AllFiles}
    /\ (~fsDir => fsFiles = EmptyFn)
    /\ created = <<>>
    /\ stdout = <<>>
    /\ stderr = <<>>

NextFile ==
    \/ MkdirAll
    \/ CreateOutput
    \/ CreateError
    \/ Println1
    \/ Println2
    \/ Fprintln1
    \/ Fprintln2
    \/ Exit0

SpecFile == InitFile /\ [][NextFile]_vars

(***************************************************************************)
(* Reading the output and the document, for the properties below.          *)
(***************************************************************************)
Header == Log("running-check", "")

NumRuns == Cardinality({j \in 1..Len(output) : output[j] = Header})

StartIdx(n) ==
    CHOOSE i \in 1..Len(output) :
        /\ output[i] = Header
        /\ Cardinality({j \in 1..i : output[j] = Header}) = n

\* what the n-th call of checkCRD has written
RunOutput(n) ==
    SubSeq(output, StartIdx(n),
           IF n < NumRuns THEN StartIdx(n + 1) - 1 ELSE Len(output))

IsVerdict(e) == e.stream = "log" /\ e.text \in VerdictTexts

IsVerdictOrDetail(e) == e.stream = "log" /\ e.text \in VerdictTexts \cup {"detail"}

IsDiag(e) == e.stream = "stdout" /\ e.text \in {"OK", "FAIL"}

IsConclusion(e) == e.stream = "log" /\ e.text \in {"up-to-date", "out-of-date"}

\* the outcome lines of a run, and its outcome lines with their details
Verdicts(r) == SelectSeq(r, IsVerdict)

VerdictDetail(r) == SelectSeq(r, IsVerdictOrDetail)

DiagLines(r) == SelectSeq(r, IsDiag)

\* the keys a run reports with the given result
Reported(r, result) == {r[i].key : i \in {j \in 1..Len(r) : r[j] = Diag(result, r[j].key)}}

\* exactly one OK or FAIL line for each key of K, and none for other keys
OneLineEach(r, K) ==
    /\ Len(DiagLines(r)) = Cardinality(K)
    /\ {DiagLines(r)[i].key : i \in 1..Len(DiagLines(r))} = K

V1Indices(d) == {i \in 1..Len(d.Versions) : d.Versions[i].Name = "v1"}

\* the first version entry named "v1"
FirstV1(d) == d.Versions[CHOOSE i \in V1Indices(d) : \A j \in V1Indices(d) : i <= j]

\* the document has a version named "v1" whose schema object is there
HasV1Schema(d) ==
    /\ d.parse = "ok"
    /\ V1Indices(d) # {}
    /\ ~FirstV1(d).Schema.isNil
    /\ FirstV1(d).Schema.hasOpenAPI

\* the sections the v1 schema has
SectionsOf(d) == DOMAIN FirstV1(d).Schema.Properties

\* the property names a section of the v1 schema declares
DeclaredIn(d, sec) == MapKeys(FirstV1(d).Schema.Properties[sec].Properties)

SpecNames == {"foo", "bar"}

StatusNames == {"message", "ready"}

RunEnded == pc = "return"

(***************************************************************************)
(* C1.  compareSchemaProperties returns true exactly when every key of     *)
(* expected is a key of actual (a nil actual has no keys), whatever the    *)
(* descriptors stored under the keys are.                                  *)
(***************************************************************************)
C1_SubsetTest ==
    pc = "returned" => ret = <<MapKeys(expected) \subseteq MapKeys(actual)>>

\* a call that returned true although a key's descriptor differs
C1_Witness ==
    /\ pc = "returned"
    /\ ret = <<TRUE>>
    /\ \E k \in MapKeys(expected) : actual.kv[k] # expected.kv[k]

(***************************************************************************)
(* C8.  compareSchemaProperties visits every key of expected: one line     *)
(* per key, FAIL for exactly the keys absent from actual, OK for the       *)
(* others; while the loop runs, the lines cover the keys visited so far.   *)
(***************************************************************************)
C8_OneLinePerKey ==
    /\ pc = "compare" =>
          /\ OneLineEach(output, MapKeys(expected) \ remaining)
          /\ Reported(output, "FAIL") \subseteq MapKeys(expected) \ MapKeys(actual)
    /\ pc = "returned" =>
          /\ OneLineEach(output, MapKeys(expected))
          /\ Len(output) = Cardinality(MapKeys(expected))
          /\ Reported(output, "FAIL") = MapKeys(expected) \ MapKeys(actual)
          /\ Reported(output, "OK") = MapKeys(expected) \cap MapKeys(actual)

\* a call on an empty actual that reported every one of two keys missing
C8_Witness ==
    /\ pc = "returned"
    /\ MapKeys(actual) = {}
    /\ Cardinality(MapKeys(expected)) >= 2
    /\ Reported(output, "FAIL") = MapKeys(expected)

\* what the call of checkCRD in progress, or the last one, has written
CurRun == RunOutput(NumRuns)

\* the first of two calls, and the second
R1 == RunOutput(1)

R2 == RunOutput(2)

\* the second of two calls of checkCRD has ended
TwoRunsDone == pc = "return" /\ NumRuns = 2

MissingSpecVerdict == Log("missing-section", "spec")

MissingStatusVerdict == Log("missing-section", "status")

(***************************************************************************)
(* C2.  On a document whose v1 schema has both sections, checkCRD          *)
(* concludes up-to-date exactly when the spec section declares foo and bar *)
(* and the status section declares message and ready; otherwise it         *)
(* concludes out-of-date and names exactly the sections that lack a name.  *)
(* The out-of-date mock gives out-of-date with bar and ready reported      *)
(* missing, the up-to-date mock gives up-to-date.                          *)
(***************************************************************************)
C2_Conclusion ==
    (RunEnded /\ HasV1Schema(doc) /\ SectionsOf(doc) = {"spec", "status"}) =>
        LET specOK == SpecNames \subseteq DeclaredIn(doc, "spec")
            statusOK == StatusNames \subseteq DeclaredIn(doc, "status")
        IN  /\ VerdictDetail(CurRun) =
                   IF specOK /\ statusOK
                   THEN <<Log("up-to-date", "")>>
                   ELSE <<Log("out-of-date", "")>>
                        \o (IF specOK THEN <<>> ELSE <<Log("detail", "spec")>>)
                        \o (IF statusOK THEN <<>> ELSE <<Log("detail", "status")>>)
            /\ doc = mockOutOfDateCRDFromCluster =>
                   /\ Verdicts(CurRun) = <<Log("out-of-date", "")>>
                   /\ Reported(CurRun, "FAIL") = {"bar", "ready"}
                   /\ Reported(CurRun, "OK") = {"foo", "message"}
            /\ doc = mockUpToDateCRDFromCluster =>
                   /\ Verdicts(CurRun) = <<Log("up-to-date", "")>>
                   /\ Reported(CurRun, "FAIL") = {}

\* the check of the out-of-date mock has ended
C2_Witness ==
    /\ RunEnded
    /\ doc = mockOutOfDateCRDFromCluster
    /\ Log("detail", "status") \in {CurRun[i] : i \in 1..Len(CurRun)}

(***************************************************************************)
(* C3.  Without a version named "v1", or when the first one has no schema  *)
(* object or no openAPIV3Schema, checkCRD only reports that the v1 schema  *)
(* was not found: no section is looked up, no OK/FAIL line and no          *)
(* conclusion is written, and the run's output is the same for each cause. *)
(***************************************************************************)
C3_ShortCircuit ==
    (doc.parse = "ok" /\ ~HasV1Schema(doc)) =>
        /\ \A i \in 1..Len(output) :
              /\ ~IsDiag(output[i])
              /\ ~IsConclusion(output[i])
              /\ output[i].text \notin {"checking", "missing-section", "check-complete"}
        /\ RunEnded => CurRun = <<Header, Log("converted", ""), Log("v1-not-found", "")>>

\* the first v1 entry has a schema object without openAPIV3Schema, a later
\* v1 entry has the full schema, and the run has ended
C3_Witness ==
    /\ RunEnded
    /\ Len(doc.Versions) = 2
    /\ doc.Versions[1] = MakeVersion("v1", NoOpenAPISchema)
    /\ doc.Versions[2] = MakeVersion("v1", FullSchema)

(***************************************************************************)
(* C4.  When the v1 schema has a spec section and no status key, checkCRD  *)
(* ends by reporting the status section missing; by then the spec check    *)
(* has written one OK/FAIL line for each of foo and bar, and no conclusion *)
(* is written.                                                             *)
(***************************************************************************)
C4_SpecCheckedBeforeMissingStatus ==
    (HasV1Schema(doc) /\ SectionsOf(doc) = {"spec"}) =>
        /\ \A i \in 1..Len(output) : ~IsConclusion(output[i])
        /\ \A i \in 1..Len(output) :
              output[i] = MissingStatusVerdict =>
                  /\ OneLineEach(SubSeq(output, 1, i), SpecNames)
                  /\ Reported(SubSeq(output, 1, i), "FAIL") = SpecNames \ DeclaredIn(doc, "spec")
        /\ RunEnded =>
              /\ Verdicts(CurRun) = <<MissingStatusVerdict>>
              /\ CurRun[Len(CurRun)] = MissingStatusVerdict
              /\ OneLineEach(CurRun, SpecNames)

\* a run that ended on the missing status section after a FAIL line
C4_Witness ==
    /\ RunEnded
    /\ HasV1Schema(doc)
    /\ SectionsOf(doc) = {"spec"}
    /\ Reported(CurRun, "FAIL") # {}
    /\ Reported(CurRun, "OK") # {}

(***************************************************************************)
(* C9.  When the v1 schema has no spec key, checkCRD ends by reporting the *)
(* spec section missing: the status section is not looked up, no OK/FAIL   *)
(* line and no conclusion is written, with or without a status section.    *)
(***************************************************************************)
C9_MissingSpecShortCircuit ==
    (HasV1Schema(doc) /\ "spec" \notin SectionsOf(doc)) =>
        /\ \A i \in 1..Len(output) :
              /\ ~IsDiag(output[i])
              /\ ~IsConclusion(output[i])
              /\ output[i] \notin {Log("checking", "status"), MissingStatusVerdict}
        /\ RunEnded =>
              CurRun = <<Header, Log("converted", ""), Log("checking", "spec"),
                         MissingSpecVerdict>>

\* a run on a schema with a full status section and no spec section ended
C9_Witness ==
    /\ RunEnded
    /\ HasV1Schema(doc)
    /\ SectionsOf(doc) = {"status"}
    /\ DeclaredIn(doc, "status") = StatusNames

(***************************************************************************)
(* C5 as claimed.  Every run of checkCRD on a document that parses writes  *)
(* exactly one outcome and one found/not-found line for every expected     *)
(* spec key and every expected status key.                                 *)
(***************************************************************************)
C5_FullAuditTrail ==
    RunEnded =>
        /\ Len(Verdicts(CurRun)) = 1
        /\ OneLineEach(CurRun, SpecNames \cup StatusNames)

(***************************************************************************)
(* C5 amended.  Every run of checkCRD on a document that parses writes     *)
(* exactly one outcome.  With a conclusion (up-to-date, out-of-date) there *)
(* is one found/not-found line for every expected spec and status key;     *)
(* with the status section missing there is one for every expected spec    *)
(* key only; with the v1 schema not found or the spec section missing      *)
(* there is none.                                                          *)
(***************************************************************************)
C5_OneVerdictAuditAsFarAsRun ==
    /\ Len(Verdicts(output)) <= NumRuns
    /\ RunEnded =>
        /\ doc.parse = "ok"
        /\ Len(Verdicts(CurRun)) = 1
        /\ LET v == Verdicts(CurRun)[1]
           IN  /\ v \in {Log("v1-not-found", ""), MissingSpecVerdict, MissingStatusVerdict,
                         Log("up-to-date", ""), Log("out-of-date", "")}
               /\ IsConclusion(v) => OneLineEach(CurRun, SpecNames \cup StatusNames)
               /\ v = MissingStatusVerdict => OneLineEach(CurRun, SpecNames)
               /\ v \in {Log("v1-not-found", ""), MissingSpecVerdict} => DiagLines(CurRun) = <<>>
               /\ HasV1Schema(doc) =>
                     Reported(CurRun, "FAIL") =
                         {DiagLines(CurRun)[i].key : i \in 1..Len(DiagLines(CurRun))}
                         \ UNION {DeclaredIn(doc, sec) : sec \in SectionsOf(doc)}

\* a run that ended on the missing status section, with lines for the spec
\* keys only
C5_Witness ==
    /\ RunEnded
    /\ Verdicts(CurRun) = <<MissingStatusVerdict>>
    /\ Len(DiagLines(CurRun)) = 2

(***************************************************************************)
(* C6.  Two calls of checkCRD on the same document give the same outcome,  *)
(* the same details and the same sets of keys reported found and missing,  *)
(* whatever order each call ranges over the expected maps in.              *)
(***************************************************************************)
C6_SameVerdictTwice ==
    TwoRunsDone =>
        /\ VerdictDetail(R1) = VerdictDetail(R2)
        /\ Reported(R1, "OK") = Reported(R2, "OK")
        /\ Reported(R1, "FAIL") = Reported(R2, "FAIL")
        /\ Len(DiagLines(R1)) = Len(DiagLines(R2))

\* two calls that wrote their lines in different orders, with a missing key
C6_Witness ==
    /\ TwoRunsDone
    /\ DiagLines(R1) # DiagLines(R2)
    /\ Reported(R1, "FAIL") # {}

(***************************************************************************)
(* C10 as claimed.  For every document, evaluating spec before status and  *)
(* status before spec give the same outcome.                               *)
(***************************************************************************)
C10_SameVerdictEitherOrder ==
    TwoRunsDone => Verdicts(R1) = Verdicts(R2)

(***************************************************************************)
(* C10 amended.  Evaluating spec before status and status before spec give *)
(* the same outcome and details for every document except those whose v1   *)
(* schema has neither section: there the outcome names the section that    *)
(* is evaluated first.                                                     *)
(***************************************************************************)
C10_SameVerdictUnlessBothAbsent ==
    TwoRunsDone =>
        IF HasV1Schema(doc) /\ SectionsOf(doc) = {}
        THEN /\ Verdicts(R1) = <<MissingSpecVerdict>>
             /\ Verdicts(R2) = <<MissingStatusVerdict>>
        ELSE VerdictDetail(R1) = VerdictDetail(R2)

\* both orders ended on the missing spec section, the second after it
\* checked the status section
C10_Witness ==
    /\ TwoRunsDone
    /\ HasV1Schema(doc)
    /\ SectionsOf(doc) = {"status"}
    /\ Verdicts(R2) = <<MissingSpecVerdict>>
    /\ DiagLines(R2) # <<>>
    /\ DiagLines(R1) = <<>>

(***************************************************************************)
(* C7.  The file program exits 0 exactly when results/, the output file    *)
(* and the error file were created, in that order.  At the first creation  *)
(* that fails it writes one message to stderr and exits 1: nothing is on   *)
(* stdout and no later file is created.  On success stdout and the output  *)
(* file hold the two fixed lines in the same order, and the error file is  *)
(* empty.                                                                  *)
(***************************************************************************)
C7_ExitStatus ==
    LET outF == outputFile(timestamp)
        errF == errorFile(timestamp)
        made == {created[i] : i \in 1..Len(created)}
    IN  /\ exitCode \in {-1, 0, 1}
        /\ (exitCode = 1) = (stderr # <<>>)
        /\ created \in {<<>>, <<outF>>, <<outF, errF>>}
        /\ (created # <<>>) => fsDir
        /\ (created = <<outF, errF>>) => exitCode # 1
        /\ errF \in made => fsFiles[errF] = <<>>
        /\ \A f \in DOMAIN fsFiles : f \notin made => fsFiles[f] = <<"old">>
        /\ exitCode = 0 =>
              /\ fsDir
              /\ created = <<outF, errF>>
              /\ stdout = <<output1, output2>>
              /\ fsFiles[outF] = <<output1, output2>>
              /\ fsFiles[errF] = <<>>
        /\ exitCode = 1 =>
              /\ Len(stderr) = 1
              /\ stdout = <<>>
              /\ stderr[1] = "Error creating results directory" => created = <<>>
              /\ stderr[1] = "Error creating output file" => created = <<>> /\ fsDir
              /\ stderr[1] = "Error creating error file" =>
                    created = <<outF>> /\ fsFiles[outF] = <<>>

\* a successful run in a directory that holds files of an earlier run
C7_Witness ==
    /\ exitCode = 0
    /\ fpc = "exited"
    /\ \E f \in DOMAIN fsFiles : fsFiles[f] = <<"old">>

====
